---- MODULE Spec2Model ----
(***************************************************************************)
(* Model of the duplex voice client of                                     *)
(* src/info_frontend/components/voice/voice-client.tsx (VoiceClient).      *)
(*                                                                         *)
(* The component is a set of React hooks.  Its state is the useState       *)
(* values and the useRef cells; the closures that connect() installs on    *)
(* the socket and on the audio processor capture the values of the render  *)
(* in which connect() was called (isMuted, and through playAudioQueue      *)
(* isSpeakerMuted), while the refs are shared by every closure.  Each      *)
(* connect() call is an "attempt" with its own microphone stream, audio    *)
(* context and socket, named by the attempt's number.                      *)
(*                                                                         *)
(* Every handler is an operator from a state record to a state record, so  *)
(* that a handler calling another (onclose calling cleanup, onmessage      *)
(* calling playAudioQueue) is the composition the code performs.           *)
(***************************************************************************)
EXTENDS Integers, Sequences, FiniteSets, TLC

\* ---------------------------------------------------------------- bounds
MaxAttempts == 2
MaxMsgs == 2
MaxCaptured == 2
\* A sample is k / SampleSteps; inputs run SampleOver steps beyond [-1, 1].
SampleSteps == 50
SampleOver == 2
\* The longest block of samples given to the codecs.
MaxBlockLen == 3

Attempts == 1..MaxAttempts
NoRef == 0

VARIABLES
  isConnected, isConnecting, isMuted, isSpeakerMuted, connectionError,
  isAgentSpeaking, isUserSpeaking,
  wsRef, audioContextRef, mediaStreamRef, audioWorkletNodeRef,
  audioQueueRef, isPlayingRef,
  pc, capMuted, capSpeakerMuted,
  stream, ctx, ws, processor,
  wsCloses, trackStops, ctxCloses,
  inflight,
  rendered, captured, nAttempts, nMsgs, sessionMsgs, speakerToggled,
  notif, nonBinary,
  codec

vars == << isConnected, isConnecting, isMuted, isSpeakerMuted, connectionError,
           isAgentSpeaking, isUserSpeaking,
           wsRef, audioContextRef, mediaStreamRef, audioWorkletNodeRef,
           audioQueueRef, isPlayingRef,
           pc, capMuted, capSpeakerMuted,
           stream, ctx, ws, processor,
           wsCloses, trackStops, ctxCloses,
           inflight,
           rendered, captured, nAttempts, nMsgs, sessionMsgs, speakerToggled,
           notif, nonBinary,
           codec >>

\* The current state as one record; handlers map such a record to the next.
State ==
  [ isConnected |-> isConnected, isConnecting |-> isConnecting,
    isMuted |-> isMuted, isSpeakerMuted |-> isSpeakerMuted,
    connectionError |-> connectionError,
    isAgentSpeaking |-> isAgentSpeaking, isUserSpeaking |-> isUserSpeaking,
    wsRef |-> wsRef, audioContextRef |-> audioContextRef,
    mediaStreamRef |-> mediaStreamRef, audioWorkletNodeRef |-> audioWorkletNodeRef,
    audioQueueRef |-> audioQueueRef, isPlayingRef |-> isPlayingRef,
    pc |-> pc, capMuted |-> capMuted, capSpeakerMuted |-> capSpeakerMuted,
    stream |-> stream, ctx |-> ctx, ws |-> ws, processor |-> processor,
    wsCloses |-> wsCloses, trackStops |-> trackStops, ctxCloses |-> ctxCloses,
    inflight |-> inflight,
    rendered |-> rendered, captured |-> captured, nAttempts |-> nAttempts,
    nMsgs |-> nMsgs, sessionMsgs |-> sessionMsgs,
    speakerToggled |-> speakerToggled, notif |-> notif,
    nonBinary |-> nonBinary ]

SetVars(s) ==
  /\ isConnected' = s.isConnected
  /\ isConnecting' = s.isConnecting
  /\ isMuted' = s.isMuted
  /\ isSpeakerMuted' = s.isSpeakerMuted
  /\ connectionError' = s.connectionError
  /\ isAgentSpeaking' = s.isAgentSpeaking
  /\ isUserSpeaking' = s.isUserSpeaking
  /\ wsRef' = s.wsRef
  /\ audioContextRef' = s.audioContextRef
  /\ mediaStreamRef' = s.mediaStreamRef
  /\ audioWorkletNodeRef' = s.audioWorkletNodeRef
  /\ audioQueueRef' = s.audioQueueRef
  /\ isPlayingRef' = s.isPlayingRef
  /\ pc' = s.pc
  /\ capMuted' = s.capMuted
  /\ capSpeakerMuted' = s.capSpeakerMuted
  /\ stream' = s.stream
  /\ ctx' = s.ctx
  /\ ws' = s.ws
  /\ processor' = s.processor
  /\ wsCloses' = s.wsCloses
  /\ trackStops' = s.trackStops
  /\ ctxCloses' = s.ctxCloses
  /\ inflight' = s.inflight
  /\ rendered' = s.rendered
  /\ captured' = s.captured
  /\ nAttempts' = s.nAttempts
  /\ nMsgs' = s.nMsgs
  /\ sessionMsgs' = s.sessionMsgs
  /\ speakerToggled' = s.speakerToggled
  /\ notif' = s.notif
  /\ nonBinary' = s.nonBinary

\* The closures of an attempt (192-245) that can never run again are
\* dropped with what they captured: the isMuted and isSpeakerMuted of an
\* attempt are read only while its socket is OPEN (207, 226-232 on an open
\* socket), and a script processor fires only while its context runs.
dropDeadClosures(s) ==
  LET over(a) == s.ws[a] \in { "CLOSING", "CLOSED" } \/ s.pc[a] = "failed"
  IN [ s EXCEPT
         !.capMuted = [ a \in Attempts |-> IF over(a) THEN FALSE ELSE s.capMuted[a] ],
         !.capSpeakerMuted =
            [ a \in Attempts |-> IF over(a) THEN FALSE ELSE s.capSpeakerMuted[a] ],
         !.processor =
            [ a \in Attempts |->
                IF s.processor[a] # NoRef /\ s.ctx[s.processor[a]] = "closed"
                THEN NoRef ELSE s.processor[a] ] ]

\* sessionMsgs, rendered and speakerToggled follow wsRef: with no socket
\* referenced (56, 68-71) they are reset.
observeSession(s) ==
  IF s.wsRef = NoRef
  THEN [ s EXCEPT !.sessionMsgs = << >>, !.rendered = << >>,
                  !.speakerToggled = FALSE ]
  ELSE s

Set(s) == SetVars(observeSession(dropDeadClosures(s))) /\ codec' = codec

\* Observation variables (no code reads them):
\*   notif          the onConnectionChange calls made by the step just taken;
\*   nonBinary      whether the step just taken was ws.onmessage on a message
\*                  that is not an ArrayBuffer;
\*   rendered       the ids of the blocks whose render was started, in start
\*                  order (emptied as sessionMsgs is);
\*   captured       one record per block the script processor delivered: the
\*                  isMuted of the component then, whether the capturing
\*                  attempt's session was Active, and whether the block was
\*                  sent and was evaluated by the volume detector;
\*   nMsgs          binary messages received so far (the id of the latest);
\*   sessionMsgs    ids of the binary messages delivered by the socket wsRef
\*                  points at (emptied when wsRef is given a new socket or
\*                  none, and when connect() starts an attempt);
\*   speakerToggled whether toggleSpeaker ran since that connect() and
\*                  since wsRef last was null;
\*   in a queued block, preMute / preUnmute: the block was already queued
\*                  when the speaker was muted / unmuted.
Begin(s) ==
  [ s EXCEPT !.notif = << >>, !.nonBinary = FALSE ]

Min(a, b) == IF a < b THEN a ELSE b

\* ------------------------------------------------------------- handles
\* WebSocket.close(): a connecting or open socket starts closing; on a
\* closing or closed socket the call does nothing.
wsClose(rs) == IF rs \in {"CONNECTING", "OPEN"} THEN "CLOSING" ELSE rs

Bump(n) == Min(n + 1, 2)

\* cleanup as it would be if it stopped the microphone tracks without
\* clearing mediaStreamRef.
cleanupKeepsStreamRef(s) ==
  LET w == s.wsRef
      m == s.mediaStreamRef
      c == s.audioContextRef
      s1 == IF w # NoRef
            THEN [ s EXCEPT !.ws[w] = wsClose(@), !.wsCloses[w] = Bump(@),
                            !.wsRef = NoRef ]
            ELSE s
      s2 == IF m # NoRef
            THEN [ s1 EXCEPT !.stream[m] = "stopped", !.trackStops[m] = Bump(@) ]
            ELSE s1
      s3 == IF c # NoRef
            THEN [ s2 EXCEPT !.ctx[c] = "closed", !.ctxCloses[c] = Bump(@),
                             !.audioContextRef = NoRef ]
            ELSE s2
  IN [ s3 EXCEPT !.audioWorkletNodeRef = NoRef,
                 !.audioQueueRef = << >>,
                 !.isPlayingRef = FALSE,
                 !.isConnected = FALSE,
                 !.isConnecting = FALSE,
                 !.isAgentSpeaking = FALSE,
                 !.isUserSpeaking = FALSE,
                 !.notif = Append(@, FALSE) ]

\* ----------------------------------------------------- cleanup (67-96)
cleanup(s) ==
  LET w == s.wsRef
      m == s.mediaStreamRef
      c == s.audioContextRef
      s1 == IF w # NoRef
            THEN [ s EXCEPT !.ws[w] = wsClose(@), !.wsCloses[w] = Bump(@),
                            !.wsRef = NoRef ]
            ELSE s
      s2 == IF m # NoRef
            THEN [ s1 EXCEPT !.stream[m] = "stopped", !.trackStops[m] = Bump(@),
                             !.mediaStreamRef = NoRef ]
            ELSE s1
      s3 == IF c # NoRef
            THEN [ s2 EXCEPT !.ctx[c] = "closed", !.ctxCloses[c] = Bump(@),
                             !.audioContextRef = NoRef ]
            ELSE s2
  IN [ s3 EXCEPT !.audioWorkletNodeRef = NoRef,
                 !.audioQueueRef = << >>,
                 !.isPlayingRef = FALSE,
                 !.isConnected = FALSE,
                 !.isConnecting = FALSE,
                 !.isAgentSpeaking = FALSE,
                 !.isUserSpeaking = FALSE,
                 !.notif = Append(@, FALSE) ]

\* ---------------------------------------------- playAudioQueue (118-154)
\* The end of playAudioQueue, after its while loop (152-153).
drainExit(s) ==
  [ s EXCEPT !.isPlayingRef = FALSE, !.isAgentSpeaking = FALSE ]

\* One pass of the while loop (131-150), from its test to the await: the
\* loop ends, or a block is dequeued and either the loop breaks (no audio
\* context), createBuffer throws (a block of no samples: the function
\* rejects and lines 152-153 never run), or the render starts and the loop
\* is suspended until that render's onended.  spk is the isSpeakerMuted of
\* the closure.
drain(s, spk) ==
  IF Len(s.audioQueueRef) > 0 /\ ~spk
  THEN LET b == Head(s.audioQueueRef)
           s1 == [ s EXCEPT !.audioQueueRef = Tail(@) ]
       IN IF s1.audioContextRef = NoRef
          THEN drainExit(s1)
          ELSE IF b.len = 0
          THEN s1
          ELSE [ s1 EXCEPT !.inflight = @ \cup { [ blk |-> b, ctx |-> s1.audioContextRef ] },
                           !.rendered = Append(@, b.id) ]
  ELSE drainExit(s)

playAudioQueue(s, spk) ==
  IF s.isPlayingRef \/ Len(s.audioQueueRef) = 0 \/ s.audioContextRef = NoRef \/ spk
  THEN s
  ELSE drain([ s EXCEPT !.isPlayingRef = TRUE, !.isAgentSpeaking = TRUE ], spk)

\* source.onended of an in-flight render r (147): the suspended loop resumes
\* at its test.  A loop only ever runs in a closure whose isSpeakerMuted is
\* false (the guard at 119-126).
onended(s, r) ==
  drain([ s EXCEPT !.inflight = @ \ { r } ], FALSE)

\* ------------------------------------------------ toggleMute (275-277)
toggleMute(s) ==
  [ s EXCEPT !.isMuted = ~@ ]

\* toggleSpeaker as it would be if muting did not clear the queue.
toggleSpeakerKeepsQueue(s) ==
  LET newValue == ~s.isSpeakerMuted
  IN IF newValue
     THEN [ s EXCEPT !.isPlayingRef = FALSE,
                     !.isAgentSpeaking = FALSE,
                     !.isSpeakerMuted = newValue ]
     ELSE [ s EXCEPT !.isSpeakerMuted = newValue ]

\* --------------------------------------------- toggleSpeaker (280-291)
toggleSpeaker(s) ==
  LET newValue == ~s.isSpeakerMuted
  IN IF newValue
     THEN [ s EXCEPT !.audioQueueRef = << >>,
                     !.isPlayingRef = FALSE,
                     !.isAgentSpeaking = FALSE,
                     !.isSpeakerMuted = newValue ]
     ELSE [ s EXCEPT !.isSpeakerMuted = newValue ]

\* Observation only: after toggleSpeaker, mark what is still queued.
markQueue(s) ==
  [ s EXCEPT !.speakerToggled = TRUE,
             !.audioQueueRef =
                [ i \in 1..Len(@) |->
                    IF s.isSpeakerMuted
                    THEN [ @[i] EXCEPT !.preMute = TRUE ]
                    ELSE [ @[i] EXCEPT !.preUnmute = TRUE ] ] ]

\* ---------------------------------------------------- connect (157-267)
\* The catch block as it would be without its call of cleanup().
connectCatchNoCleanup(s, a) ==
  [ s EXCEPT !.connectionError = TRUE, !.isConnecting = FALSE,
             !.pc[a] = "failed" ]

\* The catch block of connect (246-255), for attempt a.
connectCatch(s, a) ==
  cleanup([ s EXCEPT !.connectionError = TRUE, !.isConnecting = FALSE,
                     !.pc[a] = "failed" ])

\* connect() up to its await of getUserMedia (158-165).  The closures the
\* attempt will install see the isMuted of this render, and the
\* playAudioQueue of this render, which sees this render's isSpeakerMuted.
connect(s) ==
  IF s.isConnecting \/ s.isConnected
  THEN s
  ELSE LET a == s.nAttempts + 1
       IN [ s EXCEPT !.nAttempts = a,
                     !.pc[a] = "awaitMic",
                     !.capMuted[a] = s.isMuted,
                     !.capSpeakerMuted[a] = s.isSpeakerMuted,
                     !.isConnecting = TRUE,
                     !.connectionError = FALSE,
                     !.rendered = << >>,
                     !.sessionMsgs = << >>,
                     !.speakerToggled = FALSE ]

\* getUserMedia resolved for attempt a: connect resumes (174-245).  outcome
\* is "ok", or names the constructor that throws: "ctxThrows" (new
\* AudioContext, 177) or "wsThrows" (new URL / new WebSocket, 180-188).
connectResume(s, a, outcome) ==
  LET s1 == [ s EXCEPT !.stream[a] = "live", !.mediaStreamRef = a ]
      s2 == [ s1 EXCEPT !.ctx[a] = "running", !.audioContextRef = a ]
      s3 == [ s2 EXCEPT !.ws[a] = "CONNECTING", !.wsRef = a, !.pc[a] = "built",
                        !.sessionMsgs = << >>, !.rendered = << >> ]
  IN CASE outcome = "ctxThrows" -> connectCatch(s1, a)
       [] outcome = "wsThrows"  -> connectCatch(s2, a)
       [] OTHER                 -> s3

\* getUserMedia rejected for attempt a: the catch block runs.
connectMicFails(s, a) ==
  connectCatch(s, a)

\* ws.onopen of attempt a (192-224).  audioContextRef.current! is whatever
\* the ref holds when the socket opens; on null the handler throws after
\* the three state updates.
onopen(s, a) ==
  LET s1 == [ s EXCEPT !.ws[a] = "OPEN",
                       !.isConnected = TRUE,
                       !.isConnecting = FALSE,
                       !.notif = Append(@, TRUE) ]
  IN IF s1.audioContextRef = NoRef
     THEN s1
     ELSE [ s1 EXCEPT !.processor[a] = s1.audioContextRef,
                      !.audioWorkletNodeRef = a ]

\* The session of attempt a is Active: the component shows connected and
\* the socket the controller holds is a's, open.
Active(s, a) ==
  s.isConnected /\ s.wsRef = a /\ s.ws[a] = "OPEN"

\* processor.onaudioprocess of attempt a (206-219) on one captured block;
\* loud: the block's RMS volume exceeds 0.01.
onaudioprocess(s, a, loud) ==
  LET go == s.ws[a] = "OPEN" /\ ~s.capMuted[a]
      s1 == [ s EXCEPT !.captured =
                Append(@, [ muted |-> s.isMuted, active |-> Active(s, a),
                            sent |-> go, evaluated |-> go ]) ]
  IN IF go
     THEN [ s1 EXCEPT !.isUserSpeaking = loud ]
     ELSE s1

\* ws.onmessage as it would be without the instanceof test: whatever
\* arrives is queued as a block.
onmessageQueuesText(s, a, kind) ==
  LET n == s.nMsgs + 1
      blk == [ id |-> n, len |-> IF kind = "empty" THEN 0 ELSE 1,
               preMute |-> FALSE, preUnmute |-> FALSE ]
  IN playAudioQueue([ s EXCEPT !.nMsgs = IF kind = "text" THEN @ ELSE n,
                               !.nonBinary = (kind = "text"),
                               !.sessionMsgs = IF s.wsRef = a /\ kind # "text"
                                               THEN Append(@, n) ELSE @,
                               !.audioQueueRef = Append(@, blk) ],
                    s.capSpeakerMuted[a])

\* ws.onmessage of attempt a (226-234).  kind: "text" (not an ArrayBuffer),
\* "audio" (a binary payload of one or more samples) or "empty" (a binary
\* payload of no bytes).
onmessage(s, a, kind) ==
  IF kind = "text"
  THEN [ s EXCEPT !.nonBinary = TRUE ]
  ELSE LET n == s.nMsgs + 1
           blk == [ id |-> n, len |-> IF kind = "empty" THEN 0 ELSE 1,
                    preMute |-> FALSE, preUnmute |-> FALSE ]
       IN playAudioQueue([ s EXCEPT !.nMsgs = n,
                                    !.sessionMsgs = IF s.wsRef = a THEN Append(@, n) ELSE @,
                                    !.audioQueueRef = Append(@, blk) ],
                         s.capSpeakerMuted[a])

\* ws.onerror (236-240) and ws.onclose (242-245) of attempt a.
onerror(s, a) ==
  cleanup([ s EXCEPT !.connectionError = TRUE ])

onclose(s, a) ==
  cleanup(s)

\* The socket of attempt a reaches CLOSED: the browser fires error (when the
\* connection failed) and then close, in one task.
wsClosed(s, a, err) ==
  LET s1 == [ s EXCEPT !.ws[a] = "CLOSED" ]
  IN onclose(IF err THEN onerror(s1, a) ELSE s1, a)

\* ------------------------------------------------ disconnect (270-272)
disconnect(s) ==
  cleanup(s)

\* ------------------------------------------------- the sample codecs
\* A float sample is the rational k / SampleSteps, held as k; a decoded
\* sample is a fraction << numerator, denominator >>.
Abs(n) == IF n < 0 THEN -n ELSE n

\* Conversion of a number num / den to an Int16Array element: the fraction
\* is truncated toward zero, then taken modulo 2^16 into [-32768, 32767].
ToInt16(num, den) ==
  LET q == IF num < 0 THEN -((-num) \div den) ELSE num \div den
  IN ((q + 32768) % 65536) - 32768

\* float32ToInt16 as it would be with one scale for both signs.
float32ToInt16Symmetric(k) ==
  LET s == IF k < -SampleSteps THEN -SampleSteps
           ELSE IF k > SampleSteps THEN SampleSteps ELSE k
  IN ToInt16(s * 32767, SampleSteps)

\* float32ToInt16 as it would be without the clamp of line 102.
float32ToInt16NoClamp(k) ==
  IF k < 0 THEN ToInt16(k * 32768, SampleSteps)
           ELSE ToInt16(k * 32767, SampleSteps)

\* float32ToInt16 (99-106) on one sample: clamp to [-1, 1], scale by 0x8000
\* below zero and by 0x7fff otherwise, store into the Int16Array.
float32ToInt16(k) ==
  LET s == IF k < -SampleSteps THEN -SampleSteps
           ELSE IF k > SampleSteps THEN SampleSteps ELSE k
  IN IF s < 0 THEN ToInt16(s * 32768, SampleSteps)
              ELSE ToInt16(s * 32767, SampleSteps)

\* int16ToFloat32 (109-115) on one sample: n / 0x8000 below zero, n / 0x7fff
\* otherwise.
int16ToFloat32(n) ==
  IF n < 0 THEN << n, 32768 >> ELSE << n, 32767 >>

\* float32ToInt16 as it would be if it kept every second sample only.
float32ToInt16ArrayHalved(float32Array) ==
  [ i \in 1..(Len(float32Array) \div 2) |-> float32ToInt16(float32Array[2 * i]) ]

\* float32ToInt16 (99-106) on a block: an Int16Array of the input's length
\* (100), filled sample by sample (101-104).
float32ToInt16Array(float32Array) ==
  [ i \in 1..Len(float32Array) |-> float32ToInt16(float32Array[i]) ]

\* int16ToFloat32 (109-115) on a block.
int16ToFloat32Array(int16Array) ==
  [ i \in 1..Len(int16Array) |-> int16ToFloat32(int16Array[i]) ]

\* ----------------------------------------------------------- the machine
NoSample ==
  [ stage |-> "none", x |-> 0, pcm |-> 0, y |-> << 0, 1 >>,
    block |-> << >>, pcmBlock |-> << >>, outBlock |-> << >> ]

InitClient ==
  /\ isConnected = FALSE
  /\ isConnecting = FALSE
  /\ isMuted = FALSE
  /\ isSpeakerMuted = FALSE
  /\ connectionError = FALSE
  /\ isAgentSpeaking = FALSE
  /\ isUserSpeaking = FALSE
  /\ wsRef = NoRef
  /\ audioContextRef = NoRef
  /\ mediaStreamRef = NoRef
  /\ audioWorkletNodeRef = NoRef
  /\ audioQueueRef = << >>
  /\ isPlayingRef = FALSE
  /\ pc = [ a \in Attempts |-> "unused" ]
  /\ capMuted = [ a \in Attempts |-> FALSE ]
  /\ capSpeakerMuted = [ a \in Attempts |-> FALSE ]
  /\ stream = [ a \in Attempts |-> "none" ]
  /\ ctx = [ a \in Attempts |-> "none" ]
  /\ ws = [ a \in Attempts |-> "none" ]
  /\ processor = [ a \in Attempts |-> NoRef ]
  /\ wsCloses = [ a \in Attempts |-> 0 ]
  /\ trackStops = [ a \in Attempts |-> 0 ]
  /\ ctxCloses = [ a \in Attempts |-> 0 ]
  /\ inflight = { }
  /\ rendered = << >>
  /\ captured = << >>
  /\ nAttempts = 0
  /\ nMsgs = 0
  /\ sessionMsgs = << >>
  /\ speakerToggled = FALSE
  /\ notif = << >>
  /\ nonBinary = FALSE

Init ==
  InitClient /\ codec = NoSample

\* The connect button, or any caller of connect().
Connect ==
  /\ (isConnecting \/ isConnected \/ nAttempts < MaxAttempts)
  /\ Set(connect(Begin(State)))

GetUserMediaResolves ==
  \E a \in Attempts, outcome \in { "ok", "ctxThrows", "wsThrows" } :
    /\ pc[a] = "awaitMic"
    /\ Set(connectResume(Begin(State), a, outcome))

GetUserMediaRejects ==
  \E a \in Attempts :
    /\ pc[a] = "awaitMic"
    /\ Set(connectMicFails(Begin(State), a))

SocketOpens ==
  \E a \in Attempts :
    /\ ws[a] = "CONNECTING"
    /\ Set(onopen(Begin(State), a))

\* A connecting socket that fails always reports an error first; an open or
\* closing one may close cleanly or with an error.
SocketCloses ==
  \E a \in Attempts, err \in BOOLEAN :
    /\ ws[a] \in { "CONNECTING", "OPEN", "CLOSING" }
    /\ ws[a] = "CONNECTING" => err
    /\ Set(wsClosed(Begin(State), a, err))

\* Messages are delivered to the handlers of an open socket only.  A binary
\* message:
MessageArrives ==
  \E a \in Attempts, kind \in { "audio", "empty" } :
    /\ ws[a] = "OPEN"
    /\ nMsgs < MaxMsgs
    /\ Set(onmessage(Begin(State), a, kind))

\* A message that is not binary (a string).
TextMessageArrives ==
  \E a \in Attempts :
    /\ ws[a] = "OPEN"
    /\ Set(onmessage(Begin(State), a, "text"))

\* The script processor of attempt a delivers a block while the audio
\* context it was created on is running.
BlockCaptured ==
  \E a \in Attempts, loud \in BOOLEAN :
    /\ processor[a] # NoRef
    /\ ctx[processor[a]] = "running"
    /\ Len(captured) < MaxCaptured
    /\ Set(onaudioprocess(Begin(State), a, loud))

\* A started render ends.  (On a closed context the event may never come:
\* the action is simply not taken.)
RenderEnds ==
  \E r \in inflight :
    Set(onended(Begin(State), r))

\* The three buttons shown while connected (436-493).
ToggleMute ==
  /\ isConnected
  /\ Set(toggleMute(Begin(State)))

ToggleSpeaker ==
  /\ isConnected
  /\ Set(markQueue(toggleSpeaker(Begin(State))))

Disconnect ==
  /\ isConnected
  /\ Set(disconnect(Begin(State)))

\* The effect of 294-298 runs cleanup() on unmount and whenever the cleanup
\* callback changes (a new onConnectionChange prop), in any state.
EffectCleanup ==
  Set(cleanup(Begin(State)))

Next ==
  \/ Connect
  \/ GetUserMediaResolves
  \/ GetUserMediaRejects
  \/ SocketOpens
  \/ SocketCloses
  \/ MessageArrives
  \/ TextMessageArrives
  \/ BlockCaptured
  \/ RenderEnds
  \/ ToggleMute
  \/ ToggleSpeaker
  \/ Disconnect
  \/ EffectCleanup

Spec == Init /\ [][Next]_vars

\* ================================================================ claims
Idle ==
  /\ ~isConnected
  /\ ~isConnecting
  /\ wsRef = NoRef
  /\ mediaStreamRef = NoRef
  /\ audioContextRef = NoRef

\* cleanup() is the only caller of onConnectionChange(false): a step that
\* left a FALSE in notif ran teardown.
TornDown ==
  \E i \in 1..Len(notif) : ~notif[i]

QueueIds ==
  [ i \in 1..Len(audioQueueRef) |-> audioQueueRef[i].id ]

\* The session of attempt a is Active and its speaker has been unmuted
\* since connect() was called.
UnmutedSession(a) ==
  /\ Active(State, a)
  /\ ~capSpeakerMuted[a]
  /\ ~isSpeakerMuted
  /\ ~speakerToggled

\* C1: at every instant at most one drain loop is running and at most one
\* block is being rendered.  (Between two steps every running drain loop is
\* suspended on the one render it started, so the renders in flight count
\* the loops.)
C1_AtMostOneRender ==
  Cardinality(inflight) <= 1

\* The ids in sequence ids that the session's socket delivered.
FromSession(ids) ==
  SelectSeq(ids, LAMBDA i : \E k \in 1..Len(sessionMsgs) : sessionMsgs[k] = i)

\* C2: in an Active session whose speaker stays unmuted, the renders
\* started are exactly the binary messages the session's socket delivered,
\* in arrival order: those messages are, in order, the ones started
\* followed by the ones still queued, and a queued one always has a running
\* drain loop to reach it.
C2_RendersInArrivalOrder ==
  \A a \in Attempts :
    UnmutedSession(a) =>
      /\ FromSession(rendered \o QueueIds) = sessionMsgs
      /\ (FromSession(QueueIds) # << >> => inflight # { })

\* C3: teardown is idempotent.  Every teardown invoked by disconnect(), by
\* the effect or by a socket callback (also twice in one task: error then
\* close) leaves the state Idle; each handle the controller held is then
\* released exactly once, a handle it did not hold is not touched, and no
\* handle is ever released twice.
C3_TeardownIdempotent ==
  [][ (TornDown' /\ pc' = pc) =>
        /\ Idle'
        /\ audioQueueRef' = << >>
        /\ \A a \in Attempts :
             /\ wsCloses'[a] = IF wsRef = a THEN 1 ELSE wsCloses[a]
             /\ trackStops'[a] = IF mediaStreamRef = a THEN 1 ELSE trackStops[a]
             /\ ctxCloses'[a] = IF audioContextRef = a THEN 1 ELSE ctxCloses[a]
             /\ wsCloses'[a] <= 1 /\ trackStops'[a] <= 1 /\ ctxCloses'[a] <= 1
             /\ (mediaStreamRef = a => stream'[a] = "stopped")
             /\ (audioContextRef = a => ctx'[a] = "closed")
             /\ (wsRef = a => ws'[a] \in { "CLOSING", "CLOSED" }) ]_vars

\* Teardown ran twice in one task (the error callback, then the close
\* callback of the socket the controller held) and every handle of that
\* attempt was released once.
C3_Witness ==
  /\ notif = << FALSE, FALSE >>
  /\ Idle
  /\ \E a \in Attempts :
       /\ ws[a] = "CLOSED"
       /\ wsCloses[a] = 1 /\ trackStops[a] = 1 /\ ctxCloses[a] = 1

\* C4: a block captured in an Active session while isMuted is true is not
\* transmitted.
C4_MutedBlockNotSent ==
  \A i \in 1..Len(captured) :
    (captured[i].active /\ captured[i].muted) => ~captured[i].sent

\* C5: every block captured in an Active session is evaluated by the
\* volume detector, muted or not.
C5_EveryBlockEvaluated ==
  \A i \in 1..Len(captured) :
    captured[i].active => captured[i].evaluated

\* C6: the step that sets isSpeakerMuted to true empties the queue and sets
\* isAgentSpeaking false; and no block that was queued at a mute is ever
\* rendered afterwards (none stays queued, none is started).
C6_MuteEmptiesQueue ==
  [][ /\ (~isSpeakerMuted /\ isSpeakerMuted') =>
           (audioQueueRef' = << >> /\ ~isAgentSpeaking')
      /\ \A i \in 1..Len(audioQueueRef') : ~audioQueueRef'[i].preMute
      /\ \A r \in inflight' : ~r.blk.preMute ]_vars

\* The speaker was muted in an Active session while the first block of the
\* session was in flight and the second was queued: the queue is empty, the
\* flag is false, and the second block was never started.
C6_Witness ==
  /\ isSpeakerMuted
  /\ speakerToggled
  /\ \E a \in Attempts : Active(State, a) /\ sessionMsgs = << 1, 2 >>
  /\ rendered = << 1 >>
  /\ inflight # { }
  /\ audioQueueRef = << >>
  /\ ~isAgentSpeaking

\* C7: a binary message received while isSpeakerMuted is true is discarded:
\* it is not queued (and so not rendered).
C7_MutedMessageDiscarded ==
  [][ (isSpeakerMuted /\ nMsgs' # nMsgs) =>
        (audioQueueRef' = audioQueueRef /\ inflight' = inflight) ]_vars

\* C8: while isSpeakerMuted is true no new render is started.
C8_NoRenderStartsWhileMuted ==
  [][ isSpeakerMuted => inflight' \subseteq inflight ]_vars

\* C9: no block that was received before an unmute (and was still queued
\* then) is rendered after it.
C9_NoReplayAfterUnmute ==
  \A r \in inflight : ~r.blk.preUnmute

\* C10: when getUserMedia rejects for an attempt, that attempt never has a
\* socket (or any handle), the controller holds no handle, an error is
\* reported, onConnectionChange(false) is the one notification, and the
\* state is Idle.
MicFailed(a) ==
  pc[a] = "failed" /\ stream[a] = "none"

C10_MicFailure ==
  [][ \A a \in Attempts :
        /\ MicFailed(a)' => (ws'[a] = "none" /\ ctx'[a] = "none")
        /\ (pc[a] = "awaitMic" /\ MicFailed(a)') =>
             /\ Idle'
             /\ connectionError'
             /\ notif' = << FALSE >> ]_vars

C10_Witness ==
  /\ \E a \in Attempts : MicFailed(a) /\ ws[a] = "none" /\ nAttempts = a
  /\ Idle
  /\ connectionError
  /\ notif = << FALSE >>

\* The playback path and the capture path share the handles and the
\* connection state only, so each is also explored without the other's
\* two actions.
NextPlayback ==
  \/ Connect
  \/ GetUserMediaResolves
  \/ GetUserMediaRejects
  \/ SocketOpens
  \/ SocketCloses
  \/ MessageArrives
  \/ RenderEnds
  \/ ToggleSpeaker
  \/ Disconnect
  \/ EffectCleanup

SpecPlayback == Init /\ [][NextPlayback]_vars

NextCapture ==
  \/ Connect
  \/ GetUserMediaResolves
  \/ GetUserMediaRejects
  \/ SocketOpens
  \/ SocketCloses
  \/ BlockCaptured
  \/ ToggleMute
  \/ Disconnect
  \/ EffectCleanup

SpecCapture == Init /\ [][NextCapture]_vars

\* The connection lifecycle alone: no audio in either direction and no mute
\* button.
NextLifecycle ==
  \/ Connect
  \/ GetUserMediaResolves
  \/ GetUserMediaRejects
  \/ SocketOpens
  \/ SocketCloses
  \/ Disconnect
  \/ EffectCleanup

SpecLifecycle == Init /\ [][NextLifecycle]_vars

\* Every handle attempt a created is released.
Released(a) ==
  /\ stream[a] \in { "none", "stopped" }
  /\ ctx[a] \in { "none", "closed" }
  /\ ws[a] \in { "none", "CLOSING", "CLOSED" }

\* C11: a socket that fails or closes while connecting or open, and a
\* constructor that throws after the microphone was acquired, end as
\* disconnect() does: the attempt's tracks stopped, its audio context
\* closed, its socket closed, the queue empty, the state Idle.
C11_FailureTearsDown ==
  [][ \A a \in Attempts :
        ( \/ (ws[a] \in { "CONNECTING", "OPEN" } /\ ws'[a] = "CLOSED")
          \/ (pc[a] = "awaitMic" /\ pc'[a] = "failed" /\ stream'[a] # "none") )
        => (Released(a)' /\ Idle' /\ audioQueueRef' = << >>) ]_vars

\* C12: when teardown ran while connect() was waiting for the microphone
\* of attempt a (a is still waiting and the state shows neither connecting
\* nor connected, which only a teardown since that connect() brings about),
\* the completion of the acquisition does nothing: a holds no stream, no
\* audio context and no socket.
C12_AbandonedAcquisitionIsNoOp ==
  [][ \A a \in Attempts :
        (pc[a] = "awaitMic" /\ ~isConnecting /\ ~isConnected /\ pc'[a] # "awaitMic")
        => /\ stream'[a] \in { "none", "stopped" }
           /\ ctx'[a] = "none"
           /\ ws'[a] = "none"
           /\ mediaStreamRef' # a ]_vars

\* The sockets this client created that are connecting or open.
LiveSockets ==
  { a \in Attempts : ws[a] \in { "CONNECTING", "OPEN" } }

\* C13: no attempt is started by a connect() called while the state is
\* Connecting or Active, and at every instant at most one socket created by
\* this client is connecting or open.
C13_OneConnection ==
  [][ /\ (isConnecting \/ isConnected) => nAttempts' = nAttempts
      /\ Cardinality(LiveSockets') <= 1 ]_vars

\* C14: a step that ran teardown leaves isMuted and isSpeakerMuted false.
C14_TeardownResetsMuteFlags ==
  [][ TornDown' => (~isMuted' /\ ~isSpeakerMuted') ]_vars

\* C15: the state becomes Active only by the socket of the attempt that the
\* latest connect() started, with no teardown since that connect(): the
\* state is then still Connecting (only connect() sets isConnecting, and
\* every teardown clears it) and the attempt is the latest one.
C15_ActiveOnlyAfterFreshConnect ==
  [][ \A a \in Attempts :
        (~isConnected /\ isConnected' /\ ws[a] = "CONNECTING" /\ ws'[a] = "OPEN")
        => (isConnecting /\ a = nAttempts) ]_vars

\* C16: a render that fails does not stop the drain loop.  The guard
\* isPlayingRef is held only by a drain loop that is running (suspended on
\* the render it started): were it left set by a loop that died on a failed
\* block, the blocks queued behind that block and every later arrival of
\* the session would never be rendered.
C16_RenderFailureNotFatal ==
  isPlayingRef => inflight # { }

\* C17: every block captured in an Active session while isMuted is false
\* (from the start, or after the microphone was unmuted again) is sent, as
\* the one message the handler sends for it.
C17_UnmutedBlockSent ==
  \A i \in 1..Len(captured) :
    (captured[i].active /\ ~captured[i].muted) => captured[i].sent

\* The inbound path with the messages that are not binary, without the
\* effect cleanup.
NextInbound ==
  \/ Connect
  \/ GetUserMediaResolves
  \/ GetUserMediaRejects
  \/ SocketOpens
  \/ SocketCloses
  \/ MessageArrives
  \/ TextMessageArrives
  \/ RenderEnds
  \/ ToggleSpeaker
  \/ Disconnect

SpecInbound == Init /\ [][NextInbound]_vars

\* C18: a message that is not a binary payload changes nothing: the queue,
\* the drain-loop guard, the renders in flight and the speaking flags are as
\* they were.
C18_NonBinaryDropped ==
  [][ nonBinary' =>
        /\ audioQueueRef' = audioQueueRef
        /\ isPlayingRef' = isPlayingRef
        /\ inflight' = inflight
        /\ isAgentSpeaking' = isAgentSpeaking
        /\ isUserSpeaking' = isUserSpeaking
        /\ nMsgs' = nMsgs ]_vars

\* A non-binary message arrived while a block was queued behind a running
\* render.
C18_Witness ==
  /\ nonBinary
  /\ audioQueueRef # << >>
  /\ isPlayingRef
  /\ inflight # { }

\* The codecs on one sample: encode it, then decode the result.
Samples == (-(SampleSteps + SampleOver))..(SampleSteps + SampleOver)

InitCodec ==
  /\ InitClient
  /\ \E k \in Samples : codec = [ NoSample EXCEPT !.stage = "float", !.x = k ]

Encode ==
  /\ codec.stage = "float"
  /\ codec' = [ codec EXCEPT !.stage = "int16", !.pcm = float32ToInt16(codec.x) ]
  /\ UNCHANGED << isConnected, isConnecting, isMuted, isSpeakerMuted, connectionError,
                  isAgentSpeaking, isUserSpeaking,
                  wsRef, audioContextRef, mediaStreamRef, audioWorkletNodeRef,
                  audioQueueRef, isPlayingRef,
                  pc, capMuted, capSpeakerMuted,
                  stream, ctx, ws, processor,
                  wsCloses, trackStops, ctxCloses,
                  inflight,
                  rendered, captured, nAttempts, nMsgs, sessionMsgs, speakerToggled,
                  notif, nonBinary >>

Decode ==
  /\ codec.stage = "int16"
  /\ codec' = [ codec EXCEPT !.stage = "decoded", !.y = int16ToFloat32(codec.pcm) ]
  /\ UNCHANGED << isConnected, isConnecting, isMuted, isSpeakerMuted, connectionError,
                  isAgentSpeaking, isUserSpeaking,
                  wsRef, audioContextRef, mediaStreamRef, audioWorkletNodeRef,
                  audioQueueRef, isPlayingRef,
                  pc, capMuted, capSpeakerMuted,
                  stream, ctx, ws, processor,
                  wsCloses, trackStops, ctxCloses,
                  inflight,
                  rendered, captured, nAttempts, nMsgs, sessionMsgs, speakerToggled,
                  notif, nonBinary >>

NextCodec ==
  \/ Encode
  \/ Decode

SpecCodec == InitCodec /\ [][NextCodec]_vars

InRange == Abs(codec.x) <= SampleSteps

\* C19: for a sample x in [-1, 1], decode(encode(x)) is within 1/32767 of
\* x.  With x = k / SampleSteps and decode(encode(x)) = y[1] / y[2]:
\* |y[1] * SampleSteps - k * y[2]| * 32767 <= y[2] * SampleSteps.
C19_RoundTripWithinOneStep ==
  (codec.stage = "decoded" /\ InRange) =>
    Abs(codec.y[1] * SampleSteps - codec.x * codec.y[2]) * 32767
      <= codec.y[2] * SampleSteps

\* A negative sample that is not a multiple of the quantization step went
\* through both codecs and came back changed, within the bound.
C19_Witness ==
  /\ codec.stage = "decoded"
  /\ codec.x < 0 /\ codec.x > -SampleSteps
  /\ codec.y[2] = 32768
  /\ codec.y[1] * SampleSteps # codec.x * codec.y[2]

\* C20: for a sample x in [-1, 1] the encoded value is the integer nearest
\* to x * 32767 (x >= 0) or x * 32768 (x < 0): it is at most one half away.
C20_EncodeRoundsToNearest ==
  (codec.stage # "float" /\ codec.stage # "none" /\ InRange) =>
    LET scale == IF codec.x < 0 THEN 32768 ELSE 32767
    IN 2 * Abs(codec.pcm * SampleSteps - codec.x * scale) <= SampleSteps

\* C21: the encoder clamps before it scales.  For every input sample, also
\* outside [-1, 1], the encoded value is in [-32768, 32767] with the sign of
\* the sample (no wrap-around); a sample >= 1 gives 32767, a sample <= -1
\* gives -32768 and 0 gives 0.
C21_EncodeClamps ==
  (codec.stage = "int16" \/ codec.stage = "decoded") =>
    /\ codec.pcm >= -32768 /\ codec.pcm <= 32767
    /\ (codec.x >= SampleSteps => codec.pcm = 32767)
    /\ (codec.x <= -SampleSteps => codec.pcm = -32768)
    /\ (codec.x = 0 => codec.pcm = 0)
    /\ (codec.x > 0 => codec.pcm >= 0)
    /\ (codec.x < 0 => codec.pcm <= 0)

\* A sample above 1 was encoded as 32767.
C21_Witness ==
  /\ codec.stage = "int16"
  /\ codec.x > SampleSteps
  /\ codec.pcm = 32767

\* The codecs on whole blocks: every block of up to MaxBlockLen samples
\* drawn from the two ends of the range, the smallest steps around zero and
\* zero itself.
BlockSamples ==
  { -(SampleSteps + SampleOver), -1, 0, 1, SampleSteps }

RECURSIVE BlocksOfLen(_)
BlocksOfLen(n) ==
  IF n = 0 THEN { << >> }
  ELSE { Append(b, k) : b \in BlocksOfLen(n - 1), k \in BlockSamples }

Blocks == UNION { BlocksOfLen(n) : n \in 0..MaxBlockLen }

InitBlockCodec ==
  /\ InitClient
  /\ \E b \in Blocks : codec = [ NoSample EXCEPT !.stage = "floatBlock", !.block = b ]

EncodeBlock ==
  /\ codec.stage = "floatBlock"
  /\ codec' = [ codec EXCEPT !.stage = "int16Block",
                             !.pcmBlock = float32ToInt16Array(codec.block) ]
  /\ UNCHANGED << isConnected, isConnecting, isMuted, isSpeakerMuted, connectionError,
                  isAgentSpeaking, isUserSpeaking,
                  wsRef, audioContextRef, mediaStreamRef, audioWorkletNodeRef,
                  audioQueueRef, isPlayingRef,
                  pc, capMuted, capSpeakerMuted,
                  stream, ctx, ws, processor,
                  wsCloses, trackStops, ctxCloses,
                  inflight,
                  rendered, captured, nAttempts, nMsgs, sessionMsgs, speakerToggled,
                  notif, nonBinary >>

DecodeBlock ==
  /\ codec.stage = "int16Block"
  /\ codec' = [ codec EXCEPT !.stage = "decodedBlock",
                             !.outBlock = int16ToFloat32Array(codec.pcmBlock) ]
  /\ UNCHANGED << isConnected, isConnecting, isMuted, isSpeakerMuted, connectionError,
                  isAgentSpeaking, isUserSpeaking,
                  wsRef, audioContextRef, mediaStreamRef, audioWorkletNodeRef,
                  audioQueueRef, isPlayingRef,
                  pc, capMuted, capSpeakerMuted,
                  stream, ctx, ws, processor,
                  wsCloses, trackStops, ctxCloses,
                  inflight,
                  rendered, captured, nAttempts, nMsgs, sessionMsgs, speakerToggled,
                  notif, nonBinary >>

NextBlockCodec ==
  \/ EncodeBlock
  \/ DecodeBlock

SpecBlockCodec == InitBlockCodec /\ [][NextBlockCodec]_vars

\* C22: the encoder returns as many samples as it was given, and so does
\* the decoder, for every block length (the empty block included).
C22_LengthPreserved ==
  /\ codec.stage \in { "int16Block", "decodedBlock" } =>
       Len(codec.pcmBlock) = Len(codec.block)
  /\ codec.stage = "decodedBlock" =>
       Len(codec.outBlock) = Len(codec.pcmBlock)

\* A block of the greatest length went through both codecs.
C22_Witness ==
  /\ codec.stage = "decodedBlock"
  /\ Len(codec.block) = MaxBlockLen
  /\ Len(codec.outBlock) = MaxBlockLen

\* The echo of a sent block arrives: the server returns, as one binary
\* message, a block that the capture path sent (a block of 4096 samples, so
\* never an empty one).
SentBlocks ==
  { i \in 1..Len(captured) : captured[i].sent }

EchoArrives ==
  \E a \in Attempts :
    /\ ws[a] = "OPEN"
    /\ nMsgs < Cardinality(SentBlocks)
    /\ nMsgs < MaxMsgs
    /\ Set(onmessage(Begin(State), a, "audio"))

\* Capture and playback together, the inbound messages being echoes.
NextEcho ==
  \/ Connect
  \/ GetUserMediaResolves
  \/ GetUserMediaRejects
  \/ SocketOpens
  \/ SocketCloses
  \/ BlockCaptured
  \/ EchoArrives
  \/ RenderEnds
  \/ ToggleMute
  \/ ToggleSpeaker
  \/ Disconnect

SpecEcho == Init /\ [][NextEcho]_vars

ZeroBlock == [ i \in 1..MaxBlockLen |-> 0 ]

\* The session of attempt a is Active, both mutes are off and nothing is
\* queued or being rendered.
QuietSession(a) ==
  /\ Active(State, a)
  /\ ~isMuted /\ ~isSpeakerMuted
  /\ audioQueueRef = << >> /\ inflight = { } /\ ~isPlayingRef /\ ~isAgentSpeaking

\* C23: end-to-end echo in an Active session with both mutes off.  A block
\* of zeros encodes to as many zero samples and decodes back to zeros; the
\* captured block is sent; the echoed message starts exactly one render
\* with isAgentSpeaking true; and when that render ends isAgentSpeaking is
\* false and nothing more is rendered.
C23_EchoOfSilence ==
  [][ /\ float32ToInt16Array(ZeroBlock) = ZeroBlock
      /\ int16ToFloat32Array(ZeroBlock) = [ i \in 1..MaxBlockLen |-> << 0, 32767 >> ]
      /\ \A a \in Attempts :
           /\ (QuietSession(a) /\ Len(captured') = Len(captured) + 1
                 /\ captured'[Len(captured')].active)
              => captured'[Len(captured')].sent
           /\ (QuietSession(a) /\ ws' = ws /\ sessionMsgs' # sessionMsgs)
              => /\ Cardinality(inflight') = 1
                 /\ audioQueueRef' = << >>
                 /\ isAgentSpeaking'
           /\ (Active(State, a) /\ ~isSpeakerMuted /\ ~speakerToggled
                 /\ ~capSpeakerMuted[a]
                 /\ Cardinality(inflight) = 1 /\ audioQueueRef = << >>
                 /\ isAgentSpeaking /\ inflight' = { } /\ Active(State, a)')
              => (~isAgentSpeaking' /\ ~isPlayingRef') ]_vars

\* A drain loop is running: it is suspended on a render it started on an
\* audio context that is still running, whose onended will resume it.
Draining ==
  \E r \in inflight : ctx[r.ctx] = "running"

\* C24: in an Active session with the speaker unmuted, whenever the queue
\* is non-empty a drain loop is running (so that, renders completing, every
\* queued block is reached).
C24_QueuedImpliesDraining ==
  \A a \in Attempts :
    (Active(State, a) /\ ~isSpeakerMuted /\ audioQueueRef # << >>) => Draining

\* C25: once the speaker has been unmuted in an Active session (one that
\* started unmuted or one that started while isSpeakerMuted was still true),
\* a binary message the session's socket delivers is started at once or is
\* queued with a drain loop running to reach it.
C25_PlaybackResumesAfterUnmute ==
  [][ \A a \in Attempts :
        ( /\ Active(State, a) /\ speakerToggled /\ ~isSpeakerMuted
          /\ nMsgs' = nMsgs + 1 /\ sessionMsgs' = Append(sessionMsgs, nMsgs') )
        => \/ \E r \in inflight' : r.blk.id = nMsgs' /\ ctx'[r.ctx] = "running"
           \/ /\ \E i \in 1..Len(audioQueueRef') : audioQueueRef'[i].id = nMsgs'
              /\ Draining' ]_vars

\* A callback of a session already torn down runs in this step: the close
\* (or error and close) event of a socket that teardown had closed, or the
\* onended of a render started on an audio context that teardown closed.
StaleSocketCallback(a) ==
  ws[a] = "CLOSING" /\ ws'[a] = "CLOSED"

StaleRenderCallback ==
  \E r \in inflight : ctx[r.ctx] = "closed" /\ r \notin inflight'

\* C26: a callback of a session already torn down changes nothing of a
\* later session: not its socket, microphone stream or audio context, not
\* the queue, not the drain-loop guard, not the connection state.
C26_StaleCallbackIsNoOp ==
  [][ ((\E a \in Attempts : StaleSocketCallback(a)) \/ StaleRenderCallback)
      => /\ \A b \in Attempts :
              /\ (ws[b] \in { "CONNECTING", "OPEN" } => ws'[b] = ws[b])
              /\ stream'[b] = stream[b]
              /\ ctx'[b] = ctx[b]
         /\ audioQueueRef' = audioQueueRef
         /\ isPlayingRef' = isPlayingRef
         /\ isConnected' = isConnected
         /\ isConnecting' = isConnecting ]_vars

\* Some session is Active.
SomeActive ==
  \E a \in Attempts : Active(State, a)

\* C27: a captured block is sent only in an Active session, a binary
\* message is queued (or started) only in an Active session, and in the Idle
\* state the queue is empty.
C27_SendEnqueueOnlyActive ==
  [][ /\ (Len(captured') = Len(captured) + 1 /\ captured'[Len(captured')].sent)
           => captured'[Len(captured')].active
      /\ ( /\ nMsgs' = nMsgs + 1
           /\ \/ \E i \in 1..Len(audioQueueRef') : audioQueueRef'[i].id = nMsgs'
              \/ \E r \in inflight' : r.blk.id = nMsgs' )
           => SomeActive
      /\ Idle' => audioQueueRef' = << >> ]_vars

\* C28: a socket is created only once the microphone stream and the audio
\* context of its attempt exist, and while a socket of this client is
\* connecting or open the stream and the context of the same attempt are
\* live and are the ones the controller references.
C28_SocketHasItsResources ==
  [][ \A a \in Attempts :
        /\ (ws[a] = "none" /\ ws'[a] # "none") =>
             (stream'[a] = "live" /\ ctx'[a] = "running")
        /\ ws'[a] \in { "CONNECTING", "OPEN" } =>
             /\ stream'[a] = "live" /\ mediaStreamRef' = a
             /\ ctx'[a] = "running" /\ audioContextRef' = a ]_vars

\* C29: while the speaker is unmuted in an Active session, isAgentSpeaking
\* is true exactly when a drain loop is rendering a block.
C29_AgentSpeakingIffRendering ==
  \A a \in Attempts :
    (Active(State, a) /\ ~isSpeakerMuted) => (isAgentSpeaking <=> Draining)

\* The step just taken called onConnectionChange(true).
ConnectedNotified ==
  \E i \in 1..Len(notif) : notif[i]

\* C30: onConnectionChange(true) is called only by a step in which a socket
\* opens, and never twice without an onConnectionChange(false) between.
\* (setIsConnected(true) and setIsConnected(false) are made only together
\* with these calls, at 194-196 and 90-95: isConnected before a step tells
\* which of the two notifications was the last one.)
C30_ConnectedNotifications ==
  [][ ConnectedNotified' =>
        /\ \E a \in Attempts : ws[a] = "CONNECTING" /\ ws'[a] = "OPEN"
        /\ ~isConnected ]_vars

====
